---- MODULE Spec2Model ----
(***************************************************************************)
(* Model of the checkpointed enrichment pipeline of ps_halflife:           *)
(*   - PostProcessAPSR.WebFetch          (postprocess_apsr.py)             *)
(*   - APSRUtils.PickleOut               (apsr_utils.py)                   *)
(*   - MNLIAnalysis.Analyze/ProcessBatch (apsr_mnli_analysis.py)           *)
(*   - PostProcessCambridgeCoreCitations / PostProcessCambridgeCoreDOIs    *)
(*   - PostProcessCrossRef and the __main__ interrupt handler              *)
(* Each component has its own specification over the shared variables;     *)
(* the variables of the other components stay at their idle values.        *)
(***************************************************************************)
EXTENDS Integers, Sequences, FiniteSets, TLC

VARIABLES
    \* ---- WebFetch (one call) ----
    wf_pc,        \* "idle" | "loop" | "returned" | "raised"
    wf_base,      \* base_timeout argument
    wf_wait,      \* local `wait`
    wf_attempt,   \* loop index `attempt` (0-based); also the number of get calls made
    wf_sleeps,    \* durations passed to time.sleep, in order
    wf_hist,      \* outcome of every session.get, in order
    wf_ret,       \* value returned to the caller (NoResponse = None)
    \* ---- PickleOut (one call) ----
    pk_pc,        \* "idle" | "start" | "open" | "closed" | "crashed"
    pk_file,      \* the file at cache_path: [exists, bytes]
    pk_prev,      \* the file at cache_path when PickleOut was called
    pk_data,      \* the `data` argument
    \* ---- MNLIAnalysis.Analyze (one run) ----
    an_pc,               \* "idle" | "loop" | "done" | "interrupted"
    unified_cache_df,    \* the rows of the unified cache, in order
    batch_size,          \* Analyze's batch_size argument
    mnli_analysis_cache, \* key -> score record
    cache_at_start,      \* mnli_analysis_cache as loaded, before Analyze
    an_idx,              \* index of the next row of the iterrows loop
    completed,           \* local `completed`
    rows_for_batch,      \* local `rows_for_batch`
    premise_text,        \* local `premise_text`
    mnli_file,           \* the snapshot at mnli_cache_path
    an_batches,          \* every ProcessBatch call, in order
    an_uncached,         \* indices of the rows visited while their key was not cached
    an_log,              \* error log entries, in order
    an_output,           \* records written by OutputMergedResults
    \* ---- PostProcessAPSR: fields shared by the fetch phases ----
    camb_core_df,                   \* rows of the input CSV, in order
    cc_apsr_citations_cache,        \* title -> list of citing DOIs
    loaded_cc_apsr_citations_cache, \* flag set by LoadCachedData
    cc_apsr_citations_processed,    \* flag set when the citation phase completes
    citations_file,                 \* snapshot at cc_apsr_citations_cache_output_path
    run,                            \* number of the current process (1 = first run)
    \* ---- PostProcessCambridgeCoreCitations (one process after another) ----
    ct_pc,        \* "idle" | "start" | "collect" | "drain" | "done" | "exited"
    ct_tasks,     \* state of the future of each row: "queued" | "running" |
                  \* "finished" | "consumed"
    ct_loaded,    \* the cache as loaded when this process started
    ct_prev,      \* what the previous process did: its rows, the rows whose
                  \* result it wrote, whether it was interrupted
    ct_log,       \* log entries of this process
    \* ---- PostProcessCrossRef (one process after another) ----
    cr_pc,             \* "idle" | "start" | "collect" | "drain" | "done" | "exited"
    crossref_cache,    \* citing DOI -> record
    crossref_processed,\* flag set when the phase completes
    crossref_file,     \* snapshot at crossref_cache_output_path
    to_process,        \* the (apsr_title, doi) pairs dispatched by this process
    cr_tasks,          \* state of the future of each pair
    pbar_completed,    \* local `pbar_completed`
    cr_loaded,         \* crossref_cache as loaded when this process started
    cr_prev,           \* what the previous process did: the pairs it dispatched,
                       \* those whose result it wrote, whether it was interrupted
    cr_remote,         \* what the CrossRef API answers for DOI "b"
    cr_log,            \* log entries of this process
    \* ---- the threads of a fetch phase and crossref_lock ----
    lk_holder,         \* the thread holding crossref_lock, or "none"
    lk_coord,          \* coordinator: "idle" | "wait" | "result" | "write" | "final" | "returned"
    lk_current,        \* the worker whose future the coordinator is handling
    lk_worker,         \* per worker: "queued" | "get" | "sleep" | "done"
    lk_attempt,        \* per worker: `attempt` of its WebFetch loop
    lk_collected,      \* the workers whose result has been written
    lk_completed,      \* pbar_completed
    \* ---- the records ProcessBatch stores for one tensor of probabilities ----
    sc_pc,             \* "submitted" | "stored"
    sc_rows,           \* batch_rows: the keys of the batch, in order
    sc_probs,          \* the tensor SubmitMNLIWork returned, one row per key
    sc_cache           \* mnli_analysis_cache: key -> stored record

wfVars == <<wf_pc, wf_base, wf_wait, wf_attempt, wf_sleeps, wf_hist, wf_ret>>
pkVars == <<pk_pc, pk_file, pk_prev, pk_data>>

anVars == <<an_pc, unified_cache_df, batch_size, mnli_analysis_cache,
            cache_at_start, an_idx, completed, rows_for_batch, premise_text,
            mnli_file, an_batches, an_uncached, an_log, an_output>>

ppVars == <<camb_core_df, cc_apsr_citations_cache, loaded_cc_apsr_citations_cache,
            cc_apsr_citations_processed, citations_file, run>>
ctVars == <<ct_pc, ct_tasks, ct_loaded, ct_prev, ct_log>>

crVars == <<cr_pc, crossref_cache, crossref_processed, crossref_file, to_process,
            cr_tasks, pbar_completed, cr_loaded, cr_prev, cr_remote, cr_log>>

lkVars == <<lk_holder, lk_coord, lk_current, lk_worker, lk_attempt, lk_collected,
            lk_completed>>

scVars == <<sc_pc, sc_rows, sc_probs, sc_cache>>

vars == <<wfVars, pkVars, anVars, ppVars, ctVars, crVars, lkVars, scVars>>

\* the variables each component leaves alone
notWf == <<pkVars, anVars, ppVars, ctVars, crVars, lkVars, scVars>>
notPk == <<wfVars, anVars, ppVars, ctVars, crVars, lkVars, scVars>>
notAn == <<wfVars, pkVars, ppVars, ctVars, crVars, lkVars, scVars>>
notCt == <<wfVars, pkVars, anVars, crVars, lkVars, scVars>>
notCr == <<wfVars, pkVars, anVars, ctVars, lkVars, scVars>>
notLk == <<wfVars, pkVars, anVars, ppVars, ctVars, crVars, scVars>>
notSc == <<wfVars, pkVars, anVars, ppVars, ctVars, crVars, lkVars>>

-----------------------------------------------------------------------------
(* Generic helpers *)

Min(a, b) == IF a <= b THEN a ELSE b
Max(a, b) == IF a >= b THEN a ELSE b

RECURSIVE Pow2(_)
Pow2(n) == IF n = 0 THEN 1 ELSE 2 * Pow2(n - 1)

RECURSIVE SumSeq(_)
SumSeq(s) == IF s = <<>> THEN 0 ELSE Head(s) + SumSeq(Tail(s))

Range(s) == {s[i] : i \in 1..Len(s)}

(* Strings are sequences of one-character strings, so that strip, replace, *)
(* startswith and slicing are computed as Python computes them.            *)

\* str.strip()
RECURSIVE LStrip(_)
LStrip(s) == IF s # <<>> /\ Head(s) = " " THEN LStrip(Tail(s)) ELSE s
RECURSIVE RStrip(_)
RStrip(s) == IF s # <<>> /\ s[Len(s)] = " " THEN RStrip(SubSeq(s, 1, Len(s) - 1)) ELSE s
Strip(s) == RStrip(LStrip(s))
\* str.replace(";", "")
DropSemicolons(s) == SelectSeq(s, LAMBDA c : c # ";")
\* s[n:]
SliceFrom(s, n) == SubSeq(s, n + 1, Len(s))
\* str.startswith
StartsWith(s, p) == Len(s) >= Len(p) /\ SubSeq(s, 1, Len(p)) = p

\* "https://doi.org/" and self.doi_prefix_length (line 68)
DoiPrefix == <<"h", "t", "t", "p", "s", ":", "/", "/", "d", "o", "i", ".", "o", "r", "g", "/">>
doi_prefix_length == Len(DoiPrefix)

-----------------------------------------------------------------------------
(* WebFetch: postprocess_apsr.py lines 137-186 *)

\* cap of every wait / sleep: the literal 180 of lines 162 and 176
CapWait == 180
\* default max_attempts (line 138); no caller overrides it
MaxAttempts == 5
\* base_timeout values used by the callers: default 15 and CrossRef's 30
BaseTimeouts == {15, 30}
\* self.client_errors (line 75)
client_errors == {400, 401, 403, 404}

\* a Retry-After header: absent, one int() rejects (an HTTP date), or an integer
Absent == [hdr |-> "absent", val |-> 0]
NonInt == [hdr |-> "nonint", val |-> 0]
IntHeader(n) == [hdr |-> "int", val |-> n]
RetryAfterHeaders == {Absent, NonInt} \cup {IntHeader(n) : n \in {-1, 60, 300}}
StatusCodes == {200, 400, 401, 403, 404, 429, 503}

\* what session.get can do: raise requests.RequestException, or return a response
Exc == [kind |-> "exc", status |-> 0, retry |-> Absent]
Response(s, h) == [kind |-> "resp", status |-> s, retry |-> h]
\* WebFetch's None
NoResponse == [kind |-> "none", status |-> 0, retry |-> Absent]

\* line 176: wait = min(wait * 2, 180)
NextWait_NoCap(wait) == wait * 2
NextWait(wait) == Min(wait * 2, CapWait)

\* lines 146-154: the value slept on a 429 before the cap of line 162
RetryAfter_Doubling(h, wait) == IF h.hdr = "int" THEN h.val ELSE wait * 2
RetryAfter(h, wait) == IF h.hdr = "int" THEN h.val ELSE wait

\* after the body of one iteration that did not return: next iteration, or
\* fall out of the loop and return None (lines 179-186)
WfLoopEnd ==
    /\ wf_attempt' = wf_attempt + 1
    /\ IF wf_attempt + 1 >= MaxAttempts
          THEN wf_pc' = "returned" /\ wf_ret' = NoResponse
          ELSE wf_pc' = "loop" /\ UNCHANGED wf_ret

\* session.get raises requests.RequestException: lines 167-177
WfGetRaises ==
    /\ wf_pc = "loop"
    /\ wf_hist' = Append(wf_hist, Exc)
    /\ wf_wait' = NextWait(wf_wait)
    /\ wf_sleeps' = Append(wf_sleeps, NextWait(wf_wait))
    /\ WfLoopEnd
    /\ UNCHANGED <<wf_base, notWf>>

\* session.get returns status 429: lines 144-163
WfGet429 ==
    /\ wf_pc = "loop"
    /\ \E h \in RetryAfterHeaders :
         LET d == Min(RetryAfter(h, wf_wait), CapWait) IN
         /\ wf_hist' = Append(wf_hist, Response(429, h))
         /\ IF d < 0
               \* time.sleep of a negative length raises ValueError, which the
               \* except clause (RequestException only) does not catch
               THEN /\ wf_pc' = "raised"
                    /\ wf_attempt' = wf_attempt + 1
                    /\ UNCHANGED <<wf_sleeps, wf_ret>>
               ELSE /\ wf_sleeps' = Append(wf_sleeps, d)
                    /\ WfLoopEnd
    /\ UNCHANGED <<wf_base, wf_wait, notWf>>

\* session.get returns any other status: line 165
WfGetResponse_Retries ==
    /\ wf_pc = "loop"
    /\ \E s \in StatusCodes \ {429} :
         wf_hist' = Append(wf_hist, Response(s, Absent))
    /\ wf_sleeps' = Append(wf_sleeps, wf_wait)
    /\ WfLoopEnd
    /\ UNCHANGED <<wf_base, wf_wait, notWf>>
WfGetResponse ==
    /\ wf_pc = "loop"
    /\ \E s \in StatusCodes \ {429} :
         /\ wf_hist' = Append(wf_hist, Response(s, Absent))
         /\ wf_ret' = Response(s, Absent)
    /\ wf_attempt' = wf_attempt + 1
    /\ wf_pc' = "returned"
    /\ UNCHANGED <<wf_base, wf_wait, wf_sleeps, notWf>>

WfInit ==
    /\ wf_pc = "loop"
    /\ wf_base \in BaseTimeouts
    /\ wf_wait = wf_base
    /\ wf_attempt = 0
    /\ wf_sleeps = <<>>
    /\ wf_hist = <<>>
    /\ wf_ret = NoResponse

WfIdle ==
    /\ wf_pc = "idle"
    /\ wf_base = 0
    /\ wf_wait = 0
    /\ wf_attempt = 0
    /\ wf_sleeps = <<>>
    /\ wf_hist = <<>>
    /\ wf_ret = NoResponse

-----------------------------------------------------------------------------
(* PickleOut: apsr_utils.py lines 57-60, and LoadExistingCache, lines 62-67 *)

\* number of entries of a pickled object in the PickleOut specification
MaxEntries == 2
Entries == {1, 2}
SeqsUpTo(S, n) == UNION {[1..k -> S] : k \in 0..n}

\* pickle.dump writes the entries and ends the stream with the STOP opcode
STOP == 0
Serialize(data) == Append(data, STOP)
NoFile == [exists |-> FALSE, bytes |-> <<>>]
FileOf(data) == [exists |-> TRUE, bytes |-> Serialize(data)]

\* pickle.load succeeds on a complete stream only
Loadable(f) == f.exists /\ f.bytes # <<>> /\ f.bytes[Len(f.bytes)] = STOP

\* line 59: open(cache_path, "wb") creates the file or truncates it in place
PkOpen ==
    /\ pk_pc = "start"
    /\ pk_file' = [exists |-> TRUE, bytes |-> <<>>]
    /\ pk_pc' = "open"
    /\ UNCHANGED <<pk_prev, pk_data, notPk>>

\* line 60: pickle.dump writes the stream through the open file, piece by piece
PkWrite ==
    /\ pk_pc = "open"
    /\ Len(pk_file.bytes) < Len(Serialize(pk_data))
    /\ pk_file' = [pk_file EXCEPT !.bytes =
                      Append(@, Serialize(pk_data)[Len(pk_file.bytes) + 1])]
    /\ UNCHANGED <<pk_pc, pk_prev, pk_data, notPk>>

\* leaving the with block closes the file
PkClose ==
    /\ pk_pc = "open"
    /\ pk_file.bytes = Serialize(pk_data)
    /\ pk_pc' = "closed"
    /\ UNCHANGED <<pk_file, pk_prev, pk_data, notPk>>

\* the process dies (kill, power loss) at any point of the call
PkCrash ==
    /\ pk_pc \in {"start", "open"}
    /\ pk_pc' = "crashed"
    /\ UNCHANGED <<pk_file, pk_prev, pk_data, notPk>>

PkInit ==
    /\ pk_pc = "start"
    /\ pk_data \in SeqsUpTo(Entries, MaxEntries)
    /\ pk_prev \in {NoFile} \cup {FileOf(d) : d \in SeqsUpTo(Entries, MaxEntries)}
    /\ pk_file = pk_prev

PkIdle ==
    /\ pk_pc = "idle"
    /\ pk_data = <<>>
    /\ pk_prev = NoFile
    /\ pk_file = NoFile

-----------------------------------------------------------------------------
(* MNLIAnalysis.Analyze / ProcessBatch / SubmitMNLIWork / OutputMergedResults: *)
(* apsr_mnli_analysis.py lines 146-370                                         *)

\* rows of the unified cache in the Analyze specification
MaxRows == 3
\* largest batch_size argument in the Analyze specification
MaxBatchSize == 2

\* apsr_title and citing_doi values; a key is (apsr_title, citing_doi)
AnKeys == {<<"A", "x">>, <<"A", "y">>, <<"B", "x">>}
\* apsr_title_abstract values; "" is the empty (falsy) abstract
Premises == {"", "p", "q"}
\* Python's None for premise_text
None == "<None>"
Falsy(text) == text = None \/ text = ""

\* a row of unified_cache_df; its citing_abstract is the abstract of citing_doi
AnRow(k, p) == [key |-> k, apsr_title_abstract |-> p, citing_abstract |-> k[2]]
AnRows == {AnRow(k, p) : k \in AnKeys, p \in Premises}

\* rows of a unified cache large enough for a progress interval above 1
LargeRows == 200
\* the rows 2..LargeRows of a large unified cache: distinct keys, one premise
FillerKey(i) == <<"C", ToString(i)>>
FillerKeys == {FillerKey(i) : i \in 2..LargeRows}
LargeFrame(first) ==
    [i \in 1..LargeRows |-> IF i = 1 THEN first ELSE AnRow(FillerKey(i), "p")]

\* the triple the classifier computes for (premise, hypothesis), rounded to 4
\* places (lines 289-291): determined by the pair
Score(premise, hypothesis) == [premise |-> premise, hypothesis |-> hypothesis]
\* a record computed by an earlier run
OldScore == [premise |-> "old", hypothesis |-> "old"]
ZeroScore == [premise |-> "zero", hypothesis |-> "zero"]

\* what the model invocation of lines 170-182 can yield for k hypotheses:
\* k rows, or a different number of rows (line 184 raises)
InferenceOutcomes == {"ok", "short"}

\* line 226: if key in self.mnli_analysis_cache
KeyInCache_Never(key, cache) == FALSE
KeyInCache(key, cache) == key \in DOMAIN cache

\* line 208
PbarUpdateInterval(total_rows) == Max(1, total_rows \div 100)

\* line 238: the row's premise differs from the batch's
PremiseChanged_Never(row, premise) == FALSE
PremiseChanged(row, premise) == row.apsr_title_abstract # premise

\* SubmitMNLIWork (lines 146-194): the probabilities, or a raised exception
SubmitMNLIWork_Reversed(premise, hypotheses, outcome) ==
    IF hypotheses = <<>> \/ Falsy(premise)
    THEN [raised |-> TRUE, invoked |-> FALSE, probs |-> <<>>]
    ELSE IF outcome # "ok"
    THEN [raised |-> TRUE, invoked |-> TRUE, probs |-> <<>>]
    ELSE [raised |-> FALSE, invoked |-> TRUE,
          probs |-> [i \in 1..Len(hypotheses) |->
                        Score(premise, hypotheses[Len(hypotheses) + 1 - i])]]
SubmitMNLIWork_NoShapeCheck(premise, hypotheses, outcome) ==
    IF hypotheses = <<>> \/ Falsy(premise)
    THEN [raised |-> TRUE, invoked |-> FALSE, probs |-> <<>>]
    ELSE [raised |-> FALSE, invoked |-> TRUE,
          probs |-> [i \in 1..Len(hypotheses) |->
                        IF outcome = "ok" \/ i < Len(hypotheses)
                        THEN Score(premise, hypotheses[i]) ELSE ZeroScore]]
SubmitMNLIWork(premise, hypotheses, outcome) ==
    IF hypotheses = <<>> \/ Falsy(premise)
    THEN [raised |-> TRUE, invoked |-> FALSE, probs |-> <<>>]
    ELSE IF outcome # "ok"
    THEN [raised |-> TRUE, invoked |-> TRUE, probs |-> <<>>]
    ELSE [raised |-> FALSE, invoked |-> TRUE,
          probs |-> [i \in 1..Len(hypotheses) |-> Score(premise, hypotheses[i])]]

\* ProcessBatch (lines 273-298) on the state st = [cache, batches, log]
ProcessBatch(premise_abstract, batch_rows, outcome, st) ==
    IF batch_rows = <<>>
    THEN \* lines 281-282: nothing to do
         [st EXCEPT !.batches = Append(@, [premise |-> premise_abstract, rows |-> <<>>,
                                           invoked |-> FALSE, raised |-> FALSE,
                                           outcome |-> "none", wrote |-> FALSE])]
    ELSE
      LET citing_texts == [i \in 1..Len(batch_rows) |-> batch_rows[i].text]
          res == SubmitMNLIWork(premise_abstract, citing_texts, outcome)
          call == [premise |-> premise_abstract, rows |-> batch_rows,
                   invoked |-> res.invoked, raised |-> res.raised,
                   outcome |-> IF res.invoked THEN outcome ELSE "none",
                   wrote |-> FALSE]
          keys == {batch_rows[i].key : i \in 1..Len(batch_rows)}
          \* the loop of lines 287-292: a later item overwrites an earlier one
          last(k) == CHOOSE i \in 1..Len(batch_rows) :
                        /\ batch_rows[i].key = k
                        /\ \A j \in (i + 1)..Len(batch_rows) : batch_rows[j].key # k
      IN IF res.raised
         THEN [cache |-> st.cache,
               batches |-> Append(st.batches, [call EXCEPT !.wrote = FALSE]),
               log |-> Append(st.log, [what |-> "batch failed", key |-> batch_rows[1].key])]
         ELSE [cache |-> [k \in DOMAIN st.cache \cup keys |->
                            IF k \in keys THEN res.probs[last(k)] ELSE st.cache[k]],
               batches |-> Append(st.batches, [call EXCEPT !.wrote = TRUE]),
               log |-> st.log]

\* OutputMergedResults (lines 300-370): one record per row, zeros for a missing key
MergedRecords(df, cache) ==
    [i \in 1..Len(df) |->
        [key |-> df[i].key,
         probs |-> IF df[i].key \in DOMAIN cache THEN cache[df[i].key] ELSE ZeroScore]]
MissingKeyLog_Silent(df, cache) == <<>>
MissingKeyLog(df, cache) ==
    LET idxs == {i \in 1..Len(df) : df[i].key \notin DOMAIN cache}
        RECURSIVE build(_)
        build(i) == IF i > Len(df) THEN <<>>
                    ELSE IF i \in idxs
                         THEN <<[what |-> "key not found", key |-> df[i].key]>> \o build(i + 1)
                         ELSE build(i + 1)
    IN build(1)

\* one iteration of the loop of lines 222-254 on a row whose key is cached
AnalyzeCachedRow ==
    /\ an_pc = "loop"
    /\ an_idx <= Len(unified_cache_df)
    /\ KeyInCache(unified_cache_df[an_idx].key, mnli_analysis_cache)
    /\ completed' = completed + 1
    /\ an_idx' = an_idx + 1
    /\ UNCHANGED <<an_pc, unified_cache_df, batch_size, mnli_analysis_cache,
                   cache_at_start, rows_for_batch, premise_text, mnli_file,
                   an_batches, an_uncached, an_log, an_output, notAn>>

\* one iteration of the loop of lines 222-254 on a row whose key is not cached
AnalyzeNewRow ==
    /\ an_pc = "loop"
    /\ an_idx <= Len(unified_cache_df)
    /\ ~KeyInCache(unified_cache_df[an_idx].key, mnli_analysis_cache)
    /\ \E o1 \in InferenceOutcomes, o2 \in InferenceOutcomes :
        LET row == unified_cache_df[an_idx]
            total_rows == Len(unified_cache_df)
            st0 == [cache |-> mnli_analysis_cache, batches |-> an_batches, log |-> an_log]
            \* lines 234-236
            pt1 == IF Falsy(premise_text) THEN row.apsr_title_abstract ELSE premise_text
            rb1 == IF Falsy(premise_text) THEN <<>> ELSE rows_for_batch
            \* lines 238-241
            changed == PremiseChanged(row, pt1)
            st1 == IF changed THEN ProcessBatch(pt1, rb1, o1, st0) ELSE st0
            pt2 == IF changed THEN row.apsr_title_abstract ELSE pt1
            rb2 == IF changed THEN <<>> ELSE rb1
            \* line 243
            rb3 == Append(rb2, [key |-> row.key, text |-> row.citing_abstract,
                                idx |-> an_idx])
            \* lines 246-249
            full == Len(rb3) >= batch_size
            st2 == IF full THEN ProcessBatch(pt2, rb3, o2, st1) ELSE st1
            \* lines 251-254
            done == completed + 1
            checkpoint == (done % PbarUpdateInterval(total_rows) = 0) \/ done = total_rows
        IN
        \* an outcome is drawn only for a call that is made
        /\ (~changed \/ rb1 = <<>>) => o1 = "ok"
        /\ ~full => o2 = "ok"
        /\ mnli_analysis_cache' = st2.cache
        /\ an_batches' = st2.batches
        /\ an_log' = st2.log
        /\ rows_for_batch' = IF full THEN <<>> ELSE rb3
        /\ premise_text' = IF full THEN None ELSE pt2
        /\ completed' = done
        /\ mnli_file' = IF checkpoint THEN st2.cache ELSE mnli_file
    /\ an_uncached' = Append(an_uncached, an_idx)
    /\ an_idx' = an_idx + 1
    /\ UNCHANGED <<an_pc, unified_cache_df, batch_size, cache_at_start, an_output, notAn>>

\* after the loop: lines 256-265, the leftover batch and OutputMergedResults
AnalyzeFinish ==
    /\ an_pc = "loop"
    /\ an_idx > Len(unified_cache_df)
    /\ \E o \in InferenceOutcomes :
        LET st0 == [cache |-> mnli_analysis_cache, batches |-> an_batches, log |-> an_log]
            leftover == rows_for_batch # <<>> /\ ~Falsy(premise_text)
            st1 == IF leftover THEN ProcessBatch(premise_text, rows_for_batch, o, st0) ELSE st0
        IN
        /\ ~leftover => o = "ok"
        /\ mnli_analysis_cache' = st1.cache
        /\ an_batches' = st1.batches
        /\ mnli_file' = IF leftover THEN st1.cache ELSE mnli_file
        /\ an_output' = MergedRecords(unified_cache_df, st1.cache)
        /\ an_log' = st1.log \o MissingKeyLog(unified_cache_df, st1.cache)
    /\ an_pc' = "done"
    /\ UNCHANGED <<unified_cache_df, batch_size, cache_at_start, an_idx, completed,
                   rows_for_batch, premise_text, an_uncached, notAn>>

\* KeyboardInterrupt during the loop: it is not an Exception, so neither
\* Analyze (line 267) nor __main__ (lines 373-384) handles it; the finally
\* clause writes the log and the process exits
AnalyzeInterrupt ==
    /\ an_pc = "loop"
    /\ an_pc' = "interrupted"
    /\ UNCHANGED <<unified_cache_df, batch_size, mnli_analysis_cache, cache_at_start,
                   an_idx, completed, rows_for_batch, premise_text, mnli_file,
                   an_batches, an_uncached, an_log, an_output, notAn>>

\* MNLIAnalysis() with load_existing_cache, then Analyze(batch_size) entered:
\* LoadUnifiedCache rejects an empty frame (lines 55-56), LoadMNLICache loads
\* the snapshot (lines 70-83)
AnInit ==
    /\ an_pc = "loop"
    /\ batch_size \in 1..MaxBatchSize
    /\ \/ /\ unified_cache_df \in UNION {[1..n -> AnRows] : n \in 1..MaxRows}
          /\ \E cached \in SUBSET AnKeys :
                mnli_analysis_cache = [k \in cached |-> OldScore]
       \* an earlier run has stored all rows but the first
       \/ /\ unified_cache_df \in {LargeFrame(r) : r \in AnRows}
          /\ \E cached \in {{}, {unified_cache_df[1].key}} :
                mnli_analysis_cache = [k \in cached \cup FillerKeys |-> OldScore]
    /\ cache_at_start = mnli_analysis_cache
    /\ mnli_file = mnli_analysis_cache
    /\ an_idx = 1
    /\ completed = 0
    /\ rows_for_batch = <<>>
    /\ premise_text = None
    /\ an_batches = <<>>
    /\ an_uncached = <<>>
    /\ an_log = <<>>
    /\ an_output = <<>>

AnIdle ==
    /\ an_pc = "idle"
    /\ unified_cache_df = <<>>
    /\ batch_size = 0
    /\ mnli_analysis_cache = <<>>
    /\ cache_at_start = <<>>
    /\ mnli_file = <<>>
    /\ an_idx = 0
    /\ completed = 0
    /\ rows_for_batch = <<>>
    /\ premise_text = None
    /\ an_batches = <<>>
    /\ an_uncached = <<>>
    /\ an_log = <<>>
    /\ an_output = <<>>

-----------------------------------------------------------------------------
(* PostProcessAPSR: the fetch phases, postprocess_apsr.py *)

\* rows of the input CSV in the fetch-phase specifications
MaxDfRows == 2
\* processes run one after another (a run, then restarts with cache loading)
MaxRuns == 2
\* ThreadPoolExecutor(max_workers=5), lines 290 and 647
max_workers == 5

\* titles of the input CSV; one carries trailing whitespace
TitleA == <<"A">>
TitleB == <<"B">>
TitleC == <<"C", " ">>
\* DOI cells of the citation export
DoiA == DoiPrefix \o <<"a">>
DoiASemi == DoiPrefix \o <<"a", ";">>
DoiB == DoiPrefix \o <<"b">>
DoiBSemi == DoiPrefix \o <<"b", ";">>
DoiHeader == <<"D", "O", "I">>
DoiShort == <<"x">>
EmptyStr == <<>>

\* a Python dict with no entries
EmptyDict == [k \in {} |-> <<>>]
NoSnapshot == [exists |-> FALSE, data |-> EmptyDict]
Snapshot(cache) == [exists |-> TRUE, data |-> cache]

\* what WebFetch hands a task: None, or a response with its status and body
FetchNone == [kind |-> "none", status |-> 0, body |-> <<>>]
FetchResp(status, body) == [kind |-> "resp", status |-> status, body |-> body]

\* the remote answer for each all_citing_papers_link (deterministic): the CSV
\* export as a list of entries, each a list of cells
CsvEntry(doi) == <<<<"t">>, doi>>
CitationsRemote(link) ==
    CASE link = "L1" -> FetchResp(200, <<CsvEntry(DoiHeader), CsvEntry(DoiA)>>)
      [] link = "L2" -> FetchResp(200, <<CsvEntry(DoiHeader), CsvEntry(DoiASemi), CsvEntry(DoiB)>>)
      [] link = "L3" -> FetchNone
      [] link = "L4" -> FetchResp(404, <<>>)
      [] link = "L5" -> FetchResp(200, <<CsvEntry(DoiHeader), <<DoiShort>>, CsvEntry(DoiShort), CsvEntry(DoiA)>>)

CitRow(t, l) == [title |-> t, all_citing_papers_link |-> l]
CitRows == {CitRow(TitleA, "L1"), CitRow(TitleB, "L2"), CitRow(TitleA, "L2"),
            CitRow(TitleC, "L5"), CitRow(TitleB, "L3"), CitRow(TitleC, "L4")}

\* the input frames: up to n distinct rows, in any order
Frames(n) == {f \in UNION {[1..k -> CitRows] : k \in 1..n} :
                \A i, j \in 1..Len(f) : i # j => f[i] # f[j]}

\* an input with more rows than the pool has workers
FullFrame == <<CitRow(TitleA, "L1"), CitRow(TitleB, "L2"), CitRow(TitleA, "L2"),
               CitRow(TitleC, "L5"), CitRow(TitleB, "L3"), CitRow(TitleC, "L4")>>

\* lines 223-250: the loop over the CSV entries
RECURSIVE ParseCitations(_, _)
ParseCitations(entries, acc) ==
    IF entries = <<>> THEN acc
    ELSE LET entry == Head(entries)
             doi == Strip(entry[2])
         IN IF Len(entry) # 2 THEN ParseCitations(Tail(entries), acc)
            ELSE IF doi = DoiHeader THEN ParseCitations(Tail(entries), acc)
            ELSE IF Len(doi) > doi_prefix_length
            THEN ParseCitations(Tail(entries),
                    [acc EXCEPT !.citations = Append(@, Strip(doi))])
            ELSE ParseCitations(Tail(entries),
                    [citations |-> Append(acc.citations, EmptyStr),
                     error |-> IF acc.error = <<>> THEN <<"Invalid DOIs encountered: ">>
                               ELSE Append(acc.error, "; doi")])

\* QueryCambridgeCoreCitations (lines 205-251): (paper_title, citations, error);
\* error <<>> is None
QueryCambridgeCoreCitations(citation_row) ==
    LET paper_title == Strip(citation_row.title)
        res == CitationsRemote(citation_row.all_citing_papers_link)
    IN IF res.kind = "none"
       THEN [paper_title |-> paper_title, citations |-> <<>>, error |-> <<>>]
       ELSE IF res.status \in client_errors
       THEN [paper_title |-> paper_title, citations |-> <<>>,
             error |-> <<"[ error ]: Server Response">>]
       ELSE LET parsed == ParseCitations(res.body, [citations |-> <<>>, error |-> <<>>])
            IN [paper_title |-> paper_title, citations |-> parsed.citations,
                error |-> parsed.error]

\* dict assignment d[k] = v
DictSet_Only(d, k, v) == [x \in {k} |-> v]
DictSet(d, k, v) == [x \in DOMAIN d \cup {k} |-> IF x = k THEN v ELSE d[x]]

\* lines 327-334: pad every list to the longest with "" placeholders
MaxLen(cache) ==
    CHOOSE n \in {Len(cache[t]) : t \in DOMAIN cache} :
        \A t \in DOMAIN cache : Len(cache[t]) <= n
PadCitations_None(cache) == cache
PadCitations(cache) ==
    [t \in DOMAIN cache |->
        cache[t] \o [i \in 1..(MaxLen(cache) - Len(cache[t])) |-> EmptyStr]]

DfTitles(df) == {df[i].title : i \in 1..Len(df)}
Running_NoOne(tasks) == {}
Running(tasks) == {i \in 1..Len(tasks) : tasks[i] = "running"}
AllQueued(n) == [i \in 1..n |-> "queued"]

\* PostProcessCambridgeCoreCitations up to the submission of the tasks:
\* lines 253-294
CtBegin ==
    /\ ct_pc = "start"
    /\ LET new == {t \in DfTitles(camb_core_df) : t \notin DOMAIN cc_apsr_citations_cache}
           updated == [t \in DOMAIN cc_apsr_citations_cache \cup new |->
                         IF t \in new THEN <<>> ELSE cc_apsr_citations_cache[t]]
       IN IF loaded_cc_apsr_citations_cache
          THEN IF new = {}
               THEN \* "No new citation data to process."; return
                    /\ ct_pc' = "done"
                    /\ ct_log' = ct_log \cup {[what |-> "no new citation data", title |-> EmptyStr]}
                    /\ UNCHANGED <<cc_apsr_citations_cache, ct_tasks>>
               ELSE /\ cc_apsr_citations_cache' = updated
                    /\ ct_tasks' = AllQueued(Len(camb_core_df))
                    /\ ct_pc' = "collect"
                    /\ UNCHANGED ct_log
          ELSE /\ cc_apsr_citations_cache' = [t \in DfTitles(camb_core_df) |-> <<>>]
               /\ ct_tasks' = AllQueued(Len(camb_core_df))
               /\ ct_pc' = "collect"
               /\ UNCHANGED ct_log
    /\ UNCHANGED <<camb_core_df, loaded_cc_apsr_citations_cache,
                   cc_apsr_citations_processed, citations_file, run,
                   ct_loaded, ct_prev, notCt>>

\* a pool worker takes the oldest queued task and calls
\* QueryCambridgeCoreCitations, which issues the remote call (line 213)
CtStartTask ==
    /\ ct_pc \in {"collect", "drain"}
    /\ \E i \in 1..Len(ct_tasks) :
         /\ ct_tasks[i] = "queued"
         /\ \A j \in 1..(i - 1) : ct_tasks[j] # "queued"
         /\ Cardinality(Running(ct_tasks)) < max_workers
         /\ ct_tasks' = [ct_tasks EXCEPT ![i] = "running"]
    /\ UNCHANGED <<ppVars, ct_pc, ct_loaded, ct_prev, ct_log, notCt>>

\* the task returns; its future is done
CtFinishTask_Writes ==
    /\ ct_pc \in {"collect", "drain"}
    /\ \E i \in 1..Len(ct_tasks) :
         /\ ct_tasks[i] = "running"
         /\ ct_tasks' = [ct_tasks EXCEPT ![i] = "finished"]
         /\ LET r == QueryCambridgeCoreCitations(camb_core_df[i])
            IN cc_apsr_citations_cache' =
                   DictSet(cc_apsr_citations_cache, r.paper_title, r.citations)
    /\ UNCHANGED <<camb_core_df, loaded_cc_apsr_citations_cache,
                   cc_apsr_citations_processed, citations_file, run,
                   ct_pc, ct_loaded, ct_prev, ct_log, notCt>>
CtFinishTask ==
    /\ ct_pc \in {"collect", "drain"}
    /\ \E i \in 1..Len(ct_tasks) :
         /\ ct_tasks[i] = "running"
         /\ ct_tasks' = [ct_tasks EXCEPT ![i] = "finished"]
    /\ UNCHANGED <<ppVars, ct_pc, ct_loaded, ct_prev, ct_log, notCt>>

\* one iteration of the as_completed loop: lines 295-323
CtConsume ==
    /\ ct_pc = "collect"
    /\ \E i \in 1..Len(ct_tasks) :
         /\ ct_tasks[i] = "finished"
         /\ ct_tasks' = [ct_tasks EXCEPT ![i] = "consumed"]
         /\ LET r == QueryCambridgeCoreCitations(camb_core_df[i])
            IN IF r.paper_title # EmptyStr
               THEN /\ cc_apsr_citations_cache' =
                          DictSet(cc_apsr_citations_cache, r.paper_title, r.citations)
                    /\ ct_log' = IF r.error # <<>>
                                    THEN ct_log \cup {[what |-> "warning", title |-> r.paper_title]}
                                    ELSE ct_log
               ELSE UNCHANGED <<cc_apsr_citations_cache, ct_log>>
    /\ UNCHANGED <<camb_core_df, loaded_cc_apsr_citations_cache,
                   cc_apsr_citations_processed, citations_file, run,
                   ct_pc, ct_loaded, ct_prev, notCt>>

\* after the loop: lines 325-346, padding, CSV output and snapshot
CtFinish ==
    /\ ct_pc = "collect"
    /\ \A i \in 1..Len(ct_tasks) : ct_tasks[i] = "consumed"
    /\ cc_apsr_citations_cache' = PadCitations(cc_apsr_citations_cache)
    /\ citations_file' = Snapshot(PadCitations(cc_apsr_citations_cache))
    /\ cc_apsr_citations_processed' = TRUE
    /\ ct_pc' = "done"
    /\ UNCHANGED <<camb_core_df, loaded_cc_apsr_citations_cache, run,
                   ct_tasks, ct_loaded, ct_prev, ct_log, notCt>>

\* KeyboardInterrupt reaches the coordinator inside the as_completed loop; the
\* with block's exit (executor.shutdown(wait=True)) then waits for the workers
CtInterrupt ==
    /\ ct_pc = "collect"
    /\ ct_pc' = "drain"
    /\ UNCHANGED <<ppVars, ct_tasks, ct_loaded, ct_prev, ct_log, notCt>>

\* __main__'s except KeyboardInterrupt (lines 842-863), once the pool has shut down
CtInterruptHandler ==
    /\ ct_pc = "drain"
    /\ \A i \in 1..Len(ct_tasks) : ct_tasks[i] \in {"finished", "consumed"}
    /\ citations_file' = IF DOMAIN cc_apsr_citations_cache # {}
                            THEN Snapshot(cc_apsr_citations_cache)
                            ELSE citations_file
    /\ ct_pc' = "exited"
    /\ UNCHANGED <<camb_core_df, cc_apsr_citations_cache, loaded_cc_apsr_citations_cache,
                   cc_apsr_citations_processed, run,
                   ct_tasks, ct_loaded, ct_prev, ct_log, notCt>>

\* the rows of a finished process whose result was written to the cache
Written(tasks) == {i \in 1..Len(tasks) : tasks[i] = "consumed"}

\* the next process: PostProcessAPSR(attempt_cache_load=True), lines 17-92 and
\* LoadCachedData, lines 98-103; the input CSV is the same or has a row more
CtRestart ==
    /\ ct_pc \in {"done", "exited"}
    /\ run < MaxRuns
    /\ run' = run + 1
    /\ camb_core_df' \in {camb_core_df} \cup
           {Append(camb_core_df, r) :
              r \in {x \in CitRows : Len(camb_core_df) < MaxDfRows
                                     /\ x \notin Range(camb_core_df)}}
    /\ cc_apsr_citations_cache' =
           IF citations_file.exists THEN citations_file.data ELSE EmptyDict
    /\ loaded_cc_apsr_citations_cache' = citations_file.exists
    /\ cc_apsr_citations_processed' = FALSE
    /\ ct_loaded' = cc_apsr_citations_cache'
    /\ ct_prev' = [valid |-> TRUE, df |-> camb_core_df, written |-> Written(ct_tasks),
                   interrupted |-> ct_pc = "exited"]
    /\ ct_tasks' = <<>>
    /\ ct_log' = {}
    /\ ct_pc' = "start"
    /\ UNCHANGED <<citations_file, notCt>>

NoPrev == [valid |-> FALSE, df |-> <<>>, written |-> {}, interrupted |-> FALSE]

\* the first process: no snapshot on disk
CtInit ==
    /\ ct_pc = "start"
    /\ run = 1
    /\ camb_core_df \in Frames(MaxDfRows) \cup {FullFrame}
    /\ cc_apsr_citations_cache = EmptyDict
    /\ loaded_cc_apsr_citations_cache = FALSE
    /\ cc_apsr_citations_processed = FALSE
    /\ citations_file = NoSnapshot
    /\ ct_tasks = <<>>
    /\ ct_loaded = EmptyDict
    /\ ct_prev = NoPrev
    /\ ct_log = {}

PpIdle ==
    /\ run = 0
    /\ camb_core_df = <<>>
    /\ cc_apsr_citations_cache = EmptyDict
    /\ loaded_cc_apsr_citations_cache = FALSE
    /\ cc_apsr_citations_processed = FALSE
    /\ citations_file = NoSnapshot

CtIdle ==
    /\ ct_pc = "idle"
    /\ ct_tasks = <<>>
    /\ ct_loaded = EmptyDict
    /\ ct_prev = NoPrev
    /\ ct_log = {}

-----------------------------------------------------------------------------
(* PostProcessCrossRef and QueryCrossRefByDOI: postprocess_apsr.py lines 532-713 *)

\* length of the (padded) citation lists in the CrossRef specification
MaxCitLen == 1
\* line 684: snapshot every 100 completed units
CheckpointEvery == 100

\* cells of a citation list as the citation phase leaves them
DoiCells == {DoiA, DoiASemi, DoiB, DoiBSemi, EmptyStr}
\* the citation caches: every title has a list of the same length
CitationCaches(n) == UNION {[{TitleA, TitleB} -> [1..k -> DoiCells]] : k \in 1..n}
\* iteration order of the citation dict
DictOrder == <<TitleA, TitleB>>

\* what the CrossRef API does for a DOI (deterministic within a behaviour)
RemoteKinds == {"full", "online_only", "no_abstract", "none", "client_error", "server_error"}
NoDate == <<>>
CrossRefData(kind) ==
    [title |-> "T",
     abstract |-> IF kind = "no_abstract" THEN "" ELSE "Abs",
     print |-> IF kind = "online_only" THEN NoDate ELSE <<2020, 5>>,
     online |-> IF kind = "online_only" THEN <<2021>> ELSE NoDate]
CrossRefRemote(crossref_doi, kind_b) ==
    LET kind == IF crossref_doi = <<"a">> THEN "full"
                ELSE IF crossref_doi = <<"b">> THEN kind_b
                ELSE "client_error"
    IN CASE kind = "none" -> FetchNone
         [] kind = "client_error" -> FetchResp(404, <<>>)
         [] kind = "server_error" -> FetchResp(503, <<>>)
         [] OTHER -> FetchResp(200, <<CrossRefData(kind)>>)

\* lines 545-550: the DOI that is fetched and under which the result is stored
FormatDoi(doi) ==
    IF StartsWith(doi, DoiPrefix)
    THEN Strip(DropSemicolons(SliceFrom(doi, doi_prefix_length)))
    ELSE Strip(DropSemicolons(doi))

\* lines 593-608: the loop over published-print, published-online
RECURSIVE PublicationDate(_, _)
PublicationDate(dates, acc) ==
    IF dates = <<>> THEN acc
    ELSE IF Head(dates) # NoDate
    THEN [acc EXCEPT !.year = Head(dates)[1],
                     !.month = IF Len(Head(dates)) > 1 THEN Head(dates)[2] ELSE 0]
    ELSE PublicationDate(Tail(dates),
            [acc EXCEPT !.error = Append(@, "No publication date found")])

\* QueryCrossRefByDOI (lines 533-611): the returned dict, or a raised exception;
\* None is "" for the texts and 0 for the numbers, error <<>> is ""
QueryCrossRefByDOI(pair, kind_b) ==
    LET crossref_doi == FormatDoi(pair[2])
        res == CrossRefRemote(crossref_doi, kind_b)
        ret == [apsr_title |-> pair[1], citing_doi |-> crossref_doi,
                citing_title |-> "", citing_abstract |-> "",
                citing_pub_year |-> 0, citing_pub_month |-> 0, error |-> <<>>]
    IN IF res.kind = "none"
       THEN [raised |-> FALSE,
             ret |-> [ret EXCEPT !.error = <<"No server response after maximum attempts">>]]
       ELSE IF res.status \in client_errors
       THEN [raised |-> FALSE, ret |-> [ret EXCEPT !.error = <<"Server Response">>]]
       ELSE IF res.body = <<>>
       THEN \* res.json() raises on a body that is not JSON
            [raised |-> TRUE, ret |-> ret]
       ELSE LET data == res.body[1]
                e1 == IF data.title # "" THEN <<>> ELSE <<"No title found">>
                e2 == IF data.abstract # "" THEN <<>> ELSE <<"No abstract found">>
                d == PublicationDate(<<data.print, data.online>>,
                                     [year |-> 0, month |-> 0, error |-> e1 \o e2])
            IN [raised |-> FALSE,
                ret |-> [ret EXCEPT !.citing_title = data.title,
                                    !.citing_abstract = data.abstract,
                                    !.citing_pub_year = d.year,
                                    !.citing_pub_month = d.month,
                                    !.error = d.error]]

\* lines 627-633: the record of d needs (re)processing
NeedsProcessing(cache, d) ==
    LET has == d \in DOMAIN cache
        error == IF has THEN cache[d].error ELSE <<>>
        citing_title == IF has THEN cache[d].citing_title ELSE ""
        citing_abstract == IF has THEN cache[d].citing_abstract ELSE ""
        apsr_title == IF has THEN cache[d].apsr_title ELSE <<>>
        citing_doi == IF has THEN cache[d].citing_doi ELSE <<>>
    IN /\ error = <<>>
       /\ \/ citing_title = ""
          \/ citing_abstract = ""
          \/ apsr_title = <<>>
          \/ citing_doi = <<>>

\* lines 621-634: the pairs of one title, then of all titles in dict order
RECURSIVE PairsOf(_, _, _)
PairsOf(apsr_title, doi_list, cache) ==
    IF doi_list = <<>> THEN <<>>
    ELSE LET d == Strip(SliceFrom(Head(doi_list), doi_prefix_length))
             rest == PairsOf(apsr_title, Tail(doi_list), cache)
         IN IF d = <<>> THEN rest
            ELSE IF NeedsProcessing(cache, d) THEN <<<<apsr_title, d>>>> \o rest
            ELSE rest
RECURSIVE BuildToProcess(_, _, _)
BuildToProcess(titles, citations, cache) ==
    IF titles = <<>> THEN <<>>
    ELSE (IF Head(titles) \in DOMAIN citations
          THEN PairsOf(Head(titles), citations[Head(titles)], cache)
          ELSE <<>>) \o BuildToProcess(Tail(titles), citations, cache)

\* lines 656-664: the record stored for a returned dict
StoreResult(cache, ret) == DictSet(cache, ret.citing_doi, ret)

\* PostProcessCrossRef up to the submission of the tasks: lines 613-651
CrBegin ==
    /\ cr_pc = "start"
    /\ LET pairs == BuildToProcess(DictOrder, cc_apsr_citations_cache, crossref_cache)
       IN /\ to_process' = pairs
          /\ IF pairs = <<>>
                THEN /\ crossref_processed' = TRUE
                     /\ cr_pc' = "done"
                     /\ cr_tasks' = <<>>
                     /\ cr_log' = cr_log \cup {[what |-> "no new abstracts", doi |-> EmptyStr]}
                ELSE /\ cr_tasks' = AllQueued(Len(pairs))
                     /\ cr_pc' = "collect"
                     /\ UNCHANGED <<crossref_processed, cr_log>>
    /\ pbar_completed' = 0
    /\ UNCHANGED <<ppVars, crossref_cache, crossref_file, cr_loaded, cr_prev,
                   cr_remote, notCr>>

\* a pool worker takes the oldest queued task and calls QueryCrossRefByDOI,
\* which issues the remote call (line 556)
CrStartTask ==
    /\ cr_pc \in {"collect", "drain"}
    /\ \E i \in 1..Len(cr_tasks) :
         /\ cr_tasks[i] = "queued"
         /\ \A j \in 1..(i - 1) : cr_tasks[j] # "queued"
         /\ Cardinality(Running(cr_tasks)) < max_workers
         /\ cr_tasks' = [cr_tasks EXCEPT ![i] = "running"]
    /\ UNCHANGED <<ppVars, cr_pc, crossref_cache, crossref_processed, crossref_file,
                   to_process, pbar_completed, cr_loaded, cr_prev, cr_remote, cr_log,
                   notCr>>

\* the task returns or raises; its future is done
CrFinishTask_Hangs == cr_pc = "hang" /\ UNCHANGED vars
CrFinishTask ==
    /\ cr_pc \in {"collect", "drain"}
    /\ \E i \in 1..Len(cr_tasks) :
         /\ cr_tasks[i] = "running"
         /\ cr_tasks' = [cr_tasks EXCEPT ![i] = "finished"]
    /\ UNCHANGED <<ppVars, cr_pc, crossref_cache, crossref_processed, crossref_file,
                   to_process, pbar_completed, cr_loaded, cr_prev, cr_remote, cr_log,
                   notCr>>

\* one iteration of the as_completed loop: lines 652-694
CrConsume_Aborts ==
    /\ cr_pc = "collect"
    /\ \E i \in 1..Len(cr_tasks) :
         /\ cr_tasks[i] = "finished"
         /\ cr_tasks' = [cr_tasks EXCEPT ![i] = "consumed"]
         /\ LET r == QueryCrossRefByDOI(to_process[i], cr_remote)
                cache == IF r.raised THEN crossref_cache
                         ELSE StoreResult(crossref_cache, r.ret)
            IN /\ crossref_cache' = cache
               /\ cr_pc' = IF r.raised THEN "aborted" ELSE cr_pc
               /\ crossref_file' = IF (pbar_completed + 1) % CheckpointEvery = 0
                                     THEN Snapshot(cache) ELSE crossref_file
    /\ pbar_completed' = pbar_completed + 1
    /\ UNCHANGED <<ppVars, crossref_processed, to_process, cr_loaded, cr_prev,
                   cr_remote, cr_log, notCr>>
CrConsume ==
    /\ cr_pc = "collect"
    /\ \E i \in 1..Len(cr_tasks) :
         /\ cr_tasks[i] = "finished"
         /\ cr_tasks' = [cr_tasks EXCEPT ![i] = "consumed"]
         /\ LET r == QueryCrossRefByDOI(to_process[i], cr_remote)
                cache == IF r.raised THEN crossref_cache
                         ELSE StoreResult(crossref_cache, r.ret)
            IN /\ crossref_cache' = cache
               /\ cr_log' = IF r.raised
                               THEN cr_log \cup {[what |-> "failed to process abstract row",
                                                   doi |-> to_process[i][2]]}
                               ELSE cr_log
               /\ crossref_file' = IF (pbar_completed + 1) % CheckpointEvery = 0
                                     THEN Snapshot(cache) ELSE crossref_file
    /\ pbar_completed' = pbar_completed + 1
    /\ UNCHANGED <<ppVars, cr_pc, crossref_processed, to_process, cr_loaded, cr_prev,
                   cr_remote, notCr>>

\* after the loop: lines 696-706, the final CSV and snapshot
CrFinish ==
    /\ cr_pc = "collect"
    /\ \A i \in 1..Len(cr_tasks) : cr_tasks[i] = "consumed"
    /\ crossref_file' = Snapshot(crossref_cache)
    /\ crossref_processed' = TRUE
    /\ cr_pc' = "done"
    /\ UNCHANGED <<ppVars, crossref_cache, to_process, cr_tasks, pbar_completed,
                   cr_loaded, cr_prev, cr_remote, cr_log, notCr>>

\* KeyboardInterrupt reaches the coordinator inside the as_completed loop; the
\* with block's exit (executor.shutdown(wait=True)) then waits for the workers
CrInterrupt ==
    /\ cr_pc = "collect"
    /\ cr_pc' = "drain"
    /\ UNCHANGED <<ppVars, crossref_cache, crossref_processed, crossref_file,
                   to_process, cr_tasks, pbar_completed, cr_loaded, cr_prev, cr_remote,
                   cr_log, notCr>>

\* __main__'s except KeyboardInterrupt (lines 842-863), once the pool has shut down
CrInterruptHandler ==
    /\ cr_pc = "drain"
    /\ \A i \in 1..Len(cr_tasks) : cr_tasks[i] \in {"finished", "consumed"}
    /\ citations_file' = IF DOMAIN cc_apsr_citations_cache # {}
                            THEN Snapshot(cc_apsr_citations_cache)
                            ELSE citations_file
    /\ crossref_file' = IF DOMAIN crossref_cache # {}
                           THEN Snapshot(crossref_cache)
                           ELSE crossref_file
    /\ cr_pc' = "exited"
    /\ UNCHANGED <<camb_core_df, cc_apsr_citations_cache, loaded_cc_apsr_citations_cache,
                   cc_apsr_citations_processed, run,
                   crossref_cache, crossref_processed, to_process, cr_tasks,
                   pbar_completed, cr_loaded, cr_prev, cr_remote, cr_log, notCr>>

\* the pairs of a finished process whose result was written to the cache
CrWritten ==
    {i \in 1..Len(cr_tasks) :
        cr_tasks[i] = "consumed" /\ ~QueryCrossRefByDOI(to_process[i], cr_remote).raised}

\* the next process: PostProcessAPSR(attempt_cache_load=True) and
\* LoadCachedData (lines 98-115); the citation phase finds nothing new
CrRestart ==
    /\ cr_pc \in {"done", "exited"}
    /\ run < MaxRuns
    /\ run' = run + 1
    /\ cc_apsr_citations_cache' =
           IF citations_file.exists THEN citations_file.data ELSE EmptyDict
    /\ loaded_cc_apsr_citations_cache' = citations_file.exists
    /\ crossref_cache' = IF crossref_file.exists THEN crossref_file.data ELSE EmptyDict
    /\ cr_loaded' = crossref_cache'
    /\ crossref_processed' = FALSE
    /\ cr_prev' = [valid |-> TRUE, to_process |-> to_process, written |-> CrWritten,
                   interrupted |-> cr_pc = "exited"]
    /\ to_process' = <<>>
    /\ cr_tasks' = <<>>
    /\ pbar_completed' = 0
    /\ cr_log' = {}
    /\ cr_pc' = "start"
    /\ UNCHANGED <<camb_core_df, cc_apsr_citations_processed, citations_file,
                   crossref_file, cr_remote, notCr>>

NoPrevCr == [valid |-> FALSE, to_process |-> <<>>, written |-> {}, interrupted |-> FALSE]

\* the first process of the CrossRef specification: the citation snapshot of an
\* earlier citation phase is on disk and loaded, there is no CrossRef snapshot
CrInit ==
    /\ cr_pc = "start"
    /\ run = 1
    /\ camb_core_df = <<>>
    /\ cc_apsr_citations_cache \in CitationCaches(MaxCitLen)
    /\ loaded_cc_apsr_citations_cache = TRUE
    /\ cc_apsr_citations_processed = FALSE
    /\ citations_file = Snapshot(cc_apsr_citations_cache)
    /\ crossref_cache = EmptyDict
    /\ crossref_processed = FALSE
    /\ crossref_file = NoSnapshot
    /\ to_process = <<>>
    /\ cr_tasks = <<>>
    /\ pbar_completed = 0
    /\ cr_loaded = EmptyDict
    /\ cr_prev = NoPrevCr
    /\ cr_remote \in RemoteKinds
    /\ cr_log = {}

CrIdle ==
    /\ cr_pc = "idle"
    /\ crossref_cache = EmptyDict
    /\ crossref_processed = FALSE
    /\ crossref_file = NoSnapshot
    /\ to_process = <<>>
    /\ cr_tasks = <<>>
    /\ pbar_completed = 0
    /\ cr_loaded = EmptyDict
    /\ cr_prev = NoPrevCr
    /\ cr_remote = "full"
    /\ cr_log = {}

-----------------------------------------------------------------------------
(* The threads of PostProcessCrossRef and crossref_lock:                     *)
(* postprocess_apsr.py lines 647-706, with WebFetch (lines 137-186) running  *)
(* in the workers                                                            *)

\* the worker threads, each executing one submitted task
LkWorkers == {"w1", "w2"}
Coordinator == "coordinator"

\* a worker starts its task: QueryCrossRefByDOI calls WebFetch, which calls
\* session.get (lines 556, 143); no lock is taken on this path
LkWorkerStart_Locked(w) ==
    /\ lk_worker[w] = "queued"
    /\ lk_holder = "none"
    /\ lk_holder' = w
    /\ lk_worker' = [lk_worker EXCEPT ![w] = "get"]
    /\ UNCHANGED <<lk_coord, lk_current, lk_attempt, lk_collected, lk_completed, notLk>>
LkWorkerStart(w) ==
    /\ lk_worker[w] = "queued"
    /\ lk_worker' = [lk_worker EXCEPT ![w] = "get"]
    /\ UNCHANGED <<lk_holder, lk_coord, lk_current, lk_attempt, lk_collected,
                   lk_completed, notLk>>

\* session.get returns a response that WebFetch returns (line 165); the task
\* builds its dict and its future is done
LkGetReturns(w) ==
    /\ lk_worker[w] = "get"
    /\ lk_worker' = [lk_worker EXCEPT ![w] = "done"]
    /\ UNCHANGED <<lk_holder, lk_coord, lk_current, lk_attempt, lk_collected,
                   lk_completed, notLk>>

\* session.get returns 429 or raises: the worker sleeps (lines 162, 177)
LkGetRetry(w) ==
    /\ lk_worker[w] = "get"
    /\ lk_worker' = [lk_worker EXCEPT ![w] = "sleep"]
    /\ UNCHANGED <<lk_holder, lk_coord, lk_current, lk_attempt, lk_collected,
                   lk_completed, notLk>>

\* the sleep ends: next attempt, or WebFetch returns None (lines 141, 179-186)
LkSleepEnds(w) ==
    /\ lk_worker[w] = "sleep"
    /\ lk_attempt' = [lk_attempt EXCEPT ![w] = @ + 1]
    /\ lk_worker' = [lk_worker EXCEPT
                        ![w] = IF lk_attempt[w] + 1 >= MaxAttempts THEN "done" ELSE "get"]
    /\ UNCHANGED <<lk_holder, lk_coord, lk_current, lk_collected, lk_completed, notLk>>

\* as_completed yields a done future and future.result() returns: lines 652-654
LkCollect ==
    /\ lk_coord = "wait"
    /\ \E w \in LkWorkers \ lk_collected :
         /\ lk_worker[w] = "done"
         /\ lk_current' = w
    /\ lk_coord' = "result"
    /\ UNCHANGED <<lk_holder, lk_worker, lk_attempt, lk_collected, lk_completed, notLk>>

\* with self.crossref_lock: line 655
LkAcquire ==
    /\ lk_coord = "result"
    /\ lk_holder = "none"
    /\ lk_holder' = Coordinator
    /\ lk_coord' = "write"
    /\ UNCHANGED <<lk_current, lk_worker, lk_attempt, lk_collected, lk_completed, notLk>>

\* the cache write and the end of the with block (lines 656-664), the count
\* (line 675) and, every 100 completions, the snapshot under the lock, which
\* is released again (lines 684-694)
LkWriteRelease ==
    /\ lk_coord = "write"
    /\ lk_collected' = lk_collected \cup {lk_current}
    /\ lk_completed' = lk_completed + 1
    /\ lk_holder' = "none"
    /\ lk_coord' = "wait"
    /\ UNCHANGED <<lk_current, lk_worker, lk_attempt, notLk>>

\* the loop is over; with self.crossref_lock: line 697
LkFinalAcquire ==
    /\ lk_coord = "wait"
    /\ lk_collected = LkWorkers
    /\ lk_holder = "none"
    /\ lk_holder' = Coordinator
    /\ lk_coord' = "final"
    /\ UNCHANGED <<lk_current, lk_worker, lk_attempt, lk_collected, lk_completed, notLk>>

\* the final CSV and snapshot, the lock released: lines 698-706
LkFinalRelease ==
    /\ lk_coord = "final"
    /\ lk_holder' = "none"
    /\ lk_coord' = "returned"
    /\ UNCHANGED <<lk_current, lk_worker, lk_attempt, lk_collected, lk_completed, notLk>>

LkInit ==
    /\ lk_holder = "none"
    /\ lk_coord = "wait"
    /\ lk_current = "none"
    /\ lk_worker = [w \in LkWorkers |-> "queued"]
    /\ lk_attempt = [w \in LkWorkers |-> 0]
    /\ lk_collected = {}
    /\ lk_completed = 0

LkIdle ==
    /\ lk_holder = "none"
    /\ lk_coord = "idle"
    /\ lk_current = "none"
    /\ lk_worker = [w \in LkWorkers |-> "done"]
    /\ lk_attempt = [w \in LkWorkers |-> 0]
    /\ lk_collected = {}
    /\ lk_completed = 0

-----------------------------------------------------------------------------
(* The records of ProcessBatch: apsr_mnli_analysis.py lines 182, 286-292.      *)
(* A probability is a whole number of units: the softmax output in units of    *)
(* 10^-(Places+1), a stored value in units of 10^-Places.                      *)

\* the second argument of round() in lines 289-291
Places == 4
\* the units of a stored value that make 1.0, and those of a softmax output
Scale == 10 ^ Places
Fine == 10 * Scale
\* rows of the tensor in the specification of the stored records
MaxScoreRows == 2

\* softmax outputs: values near a rounding boundary, a tie (3125 is 1/32), the ends
ProbValues == {0, 5, 9, 15, 3125, 33333, 49995, Fine}
\* line 182: softmax over the three logits of a row; the row sums to 1
SoftmaxRows ==
    {<<t[1], t[2], Fine - t[1] - t[2]>> :
        t \in {u \in ProbValues \X ProbValues : u[1] + u[2] <= Fine}}

\* round(x, 4): to the nearest multiple of 10^-4, a tie to the even one
Round4_Truncate(p) == p \div 10
Round4(p) ==
    LET q == p \div 10
        r == p % 10
    IN IF r > 5 \/ (r = 5 /\ q % 2 = 1) THEN q + 1 ELSE q

\* lines 288-292: the record stored for row i of the tensor
ScoreRecord(probabilities, i) ==
    [contradiction_prob |-> Round4(probabilities[i][1]),
     neutral_prob |-> Round4(probabilities[i][2]),
     entailment_prob |-> Round4(probabilities[i][3])]

\* the keys of a batch: Analyze appends only rows whose key is not cached
ScKeys == <<<<"A", "x">>, <<"A", "y">>, <<"B", "x">>>>

\* the loop of lines 287-292 over batch_rows
ScStore ==
    /\ sc_pc = "submitted"
    /\ sc_cache' = [k \in DOMAIN sc_cache \cup Range(sc_rows) |->
                      IF k \in Range(sc_rows)
                      THEN ScoreRecord(sc_probs,
                                       CHOOSE i \in 1..Len(sc_rows) : sc_rows[i] = k)
                      ELSE sc_cache[k]]
    /\ sc_pc' = "stored"
    /\ UNCHANGED <<sc_rows, sc_probs, notSc>>

\* SubmitMNLIWork has returned a tensor with one row per hypothesis (line 184)
ScInit ==
    /\ sc_pc = "submitted"
    /\ \E n \in 1..MaxScoreRows :
        /\ sc_rows = SubSeq(ScKeys, 1, n)
        /\ sc_probs \in [1..n -> SoftmaxRows]
    /\ sc_cache = <<>>

ScIdle ==
    /\ sc_pc = "idle"
    /\ sc_rows = <<>>
    /\ sc_probs = <<>>
    /\ sc_cache = <<>>

-----------------------------------------------------------------------------
(* Specifications *)

InitWebFetch == WfInit /\ PkIdle /\ AnIdle /\ PpIdle /\ CtIdle /\ CrIdle /\ LkIdle /\ ScIdle
NextWebFetch == WfGetRaises \/ WfGet429 \/ WfGetResponse
SpecWebFetch == InitWebFetch /\ [][NextWebFetch]_vars

InitPickle == PkInit /\ WfIdle /\ AnIdle /\ PpIdle /\ CtIdle /\ CrIdle /\ LkIdle /\ ScIdle
NextPickle == PkOpen \/ PkWrite \/ PkClose \/ PkCrash
SpecPickle == InitPickle /\ [][NextPickle]_vars

InitAnalyze == AnInit /\ WfIdle /\ PkIdle /\ PpIdle /\ CtIdle /\ CrIdle /\ LkIdle /\ ScIdle
NextAnalyze == AnalyzeCachedRow \/ AnalyzeNewRow \/ AnalyzeFinish \/ AnalyzeInterrupt
SpecAnalyze == InitAnalyze /\ [][NextAnalyze]_vars

InitCitations == CtInit /\ WfIdle /\ PkIdle /\ AnIdle /\ CrIdle /\ LkIdle /\ ScIdle
NextCitations ==
    \/ CtBegin \/ CtStartTask \/ CtFinishTask \/ CtConsume \/ CtFinish
    \/ CtInterrupt \/ CtInterruptHandler \/ CtRestart
SpecCitations == InitCitations /\ [][NextCitations]_vars

InitCrossRef == CrInit /\ WfIdle /\ PkIdle /\ AnIdle /\ CtIdle /\ LkIdle /\ ScIdle
NextCrossRef ==
    \/ CrBegin \/ CrStartTask \/ CrFinishTask \/ CrConsume \/ CrFinish
    \/ CrInterrupt \/ CrInterruptHandler \/ CrRestart
SpecCrossRef == InitCrossRef /\ [][NextCrossRef]_vars
\* the pool's workers and the coordinator keep running, and every remote get
\* returns or raises: WebFetch makes at most max_attempts calls and sleeps at
\* most 180 s after each, so a started task finishes; the interrupt and the
\* next process are external and need not happen
FairSpecCrossRef ==
    /\ SpecCrossRef
    /\ WF_vars(CrBegin) /\ WF_vars(CrStartTask) /\ WF_vars(CrFinishTask)
    /\ WF_vars(CrConsume) /\ WF_vars(CrFinish) /\ WF_vars(CrInterruptHandler)

InitLocks == LkInit /\ WfIdle /\ PkIdle /\ AnIdle /\ PpIdle /\ CtIdle /\ CrIdle /\ ScIdle
NextLocks ==
    \/ \E w \in LkWorkers :
          LkWorkerStart(w) \/ LkGetReturns(w) \/ LkGetRetry(w) \/ LkSleepEnds(w)
    \/ LkCollect \/ LkAcquire \/ LkWriteRelease \/ LkFinalAcquire \/ LkFinalRelease
SpecLocks == InitLocks /\ [][NextLocks]_vars

InitScore ==
    ScInit /\ WfIdle /\ PkIdle /\ AnIdle /\ PpIdle /\ CtIdle /\ CrIdle /\ LkIdle
NextScore == ScStore
SpecScore == InitScore /\ [][NextScore]_vars

-----------------------------------------------------------------------------
(* Claims about Analyze *)

\* the keys of the rows of the ProcessBatch calls made so far
SubmittedKeys ==
    UNION {{an_batches[b].rows[i].key : i \in 1..Len(an_batches[b].rows)} :
             b \in 1..Len(an_batches)}

\* C1: every key that is in the MNLI cache when Analyze starts is never passed
\* to ProcessBatch / SubmitMNLIWork, and its cache record stays what it was.
C1_IdempotentSkipAnalyze ==
    an_pc # "idle" =>
        \A k \in DOMAIN cache_at_start :
            /\ k \notin SubmittedKeys
            /\ k \in DOMAIN mnli_analysis_cache
            /\ mnli_analysis_cache[k] = cache_at_start[k]

\* C1 witness: a finished run over cached and uncached rows, in which an
\* inference call succeeded and wrote new records
C1_Witness ==
    /\ an_pc = "done"
    /\ \E i \in 1..Len(unified_cache_df) : unified_cache_df[i].key \in DOMAIN cache_at_start
    /\ \E b \in 1..Len(an_batches) : ~an_batches[b].raised
    /\ DOMAIN mnli_analysis_cache # DOMAIN cache_at_start

-----------------------------------------------------------------------------
(* Claims about ProcessBatch and the batching of Analyze *)

\* the batches whose inference call returned
Succeeded(b) == an_batches[b].invoked /\ ~an_batches[b].raised
KeysOfBatch(b) == {an_batches[b].rows[i].key : i \in 1..Len(an_batches[b].rows)}
\* a later write of key k: by a later item of batch b or by a later batch
OverwrittenAfter(b, i, k) ==
    \/ \E j \in (i + 1)..Len(an_batches[b].rows) : an_batches[b].rows[j].key = k
    \/ \E c \in (b + 1)..Len(an_batches) : Succeeded(c) /\ k \in KeysOfBatch(c)

\* C16: a successful inference call for k items yields k result rows, and the
\* result of item i is what the cache holds under the key of item i.
C16_BatchPositional ==
    \A b \in 1..Len(an_batches) :
        Succeeded(b) =>
            LET rows == an_batches[b].rows
                texts == [i \in 1..Len(rows) |-> rows[i].text]
            IN /\ Len(SubmitMNLIWork(an_batches[b].premise, texts, "ok").probs) = Len(rows)
               /\ \A i \in 1..Len(rows) :
                     ~OverwrittenAfter(b, i, rows[i].key) =>
                         /\ rows[i].key \in DOMAIN mnli_analysis_cache
                         /\ mnli_analysis_cache[rows[i].key] =
                                Score(an_batches[b].premise, rows[i].text)

\* C16 witness: a batch of two items with different hypotheses succeeded
C16_Witness ==
    /\ an_pc = "done"
    /\ \E b \in 1..Len(an_batches) :
          /\ Succeeded(b)
          /\ Len(an_batches[b].rows) = 2
          /\ an_batches[b].rows[1].text # an_batches[b].rows[2].text
          /\ mnli_analysis_cache[an_batches[b].rows[1].key] #
                mnli_analysis_cache[an_batches[b].rows[2].key]

\* the keys of the unified cache are pairwise distinct
UniqueKeys ==
    Cardinality({unified_cache_df[i].key : i \in 1..Len(unified_cache_df)}) =
        Len(unified_cache_df)

\* C17: a batch whose inference call yields a wrong number of rows writes
\* nothing to the cache and logs an error; Analyze still completes, and the
\* keys of the batch are absent from the cache and from its snapshot (a key
\* that also occurs in another row can only have been stored by that row's
\* successful batch).
C17_ContractViolation ==
    /\ \A b \in 1..Len(an_batches) :
          an_batches[b].outcome = "short" =>
              /\ an_batches[b].raised
              /\ ~an_batches[b].wrote
              /\ \E e \in 1..Len(an_log) :
                    /\ an_log[e].what = "batch failed"
                    /\ an_log[e].key = an_batches[b].rows[1].key
              /\ \A k \in KeysOfBatch(b) :
                    /\ k \in DOMAIN mnli_analysis_cache =>
                          \E c \in 1..Len(an_batches) : Succeeded(c) /\ k \in KeysOfBatch(c)
                    /\ UniqueKeys => /\ k \notin DOMAIN mnli_analysis_cache
                                     /\ k \notin DOMAIN mnli_file
    /\ an_pc = "done" => Len(an_output) = Len(unified_cache_df)

\* C17 witness: Analyze completed after a batch of two items failed that way
C17_Witness ==
    /\ an_pc = "done"
    /\ UniqueKeys
    /\ \E b \in 1..Len(an_batches) :
          /\ an_batches[b].outcome = "short"
          /\ Len(an_batches[b].rows) = 2
          /\ b < Len(an_batches)

\* the uncached rows idxs in source order, cut where the premise changes and
\* where batch_size items are reached
RECURSIVE Chunks(_, _)
Chunks(idxs, cur) ==
    IF idxs = <<>> THEN (IF cur = <<>> THEN <<>> ELSE <<cur>>)
    ELSE LET i == Head(idxs)
         IN IF cur # <<>> /\ unified_cache_df[cur[1]].apsr_title_abstract #
                               unified_cache_df[i].apsr_title_abstract
            THEN <<cur>> \o Chunks(idxs, <<>>)
            ELSE IF Len(cur) + 1 >= batch_size
                 THEN <<Append(cur, i)>> \o Chunks(Tail(idxs), <<>>)
                 ELSE Chunks(Tail(idxs), Append(cur, i))
\* the rows of each ProcessBatch call, as indices of the unified cache
BatchIdxs ==
    [b \in 1..Len(an_batches) |->
        [j \in 1..Len(an_batches[b].rows) |-> an_batches[b].rows[j].idx]]

\* C18: every batch has between 1 and batch_size items, and the uncached rows
\* of a run sharing one premise are flushed batch_size at a time, followed by
\* one batch with the remainder.
C18_BatchSizes ==
    /\ \A b \in 1..Len(an_batches) :
          /\ Len(an_batches[b].rows) >= 1
          /\ Len(an_batches[b].rows) <= batch_size
    /\ an_pc = "done" => BatchIdxs = Chunks(an_uncached, <<>>)

\* C19: when Analyze returns, every row that was visited while its key was
\* not cached has been passed to ProcessBatch in exactly one batch.
C19_EveryPendingItemFlushed ==
    an_pc = "done" =>
        \A n \in 1..Len(an_uncached) :
            Cardinality({<<b, j>> \in (1..Len(an_batches)) \X (1..MaxRows) :
                            /\ j <= Len(an_batches[b].rows)
                            /\ an_batches[b].rows[j].idx = an_uncached[n]}) = 1

\* C20: every item of every batch, and every accumulated item, comes from a
\* row whose apsr_title_abstract is the premise of the batch.
C20_SinglePremise ==
    /\ \A b \in 1..Len(an_batches) : \A j \in 1..Len(an_batches[b].rows) :
          unified_cache_df[an_batches[b].rows[j].idx].apsr_title_abstract =
              an_batches[b].premise
    /\ \A j \in 1..Len(rows_for_batch) :
          unified_cache_df[rows_for_batch[j].idx].apsr_title_abstract = premise_text

\* C20 witness: a batch was flushed by a premise change and another followed
C20_Witness ==
    /\ an_pc = "done"
    /\ Len(an_batches) >= 2
    /\ Len(an_batches[1].rows) = 1
    /\ Len(an_batches[2].rows) = 2
    /\ batch_size = 2
    /\ an_batches[1].premise # an_batches[2].premise

-----------------------------------------------------------------------------
(* Claims about the checkpoints of Analyze *)

\* C21: when Analyze returns normally, the snapshot file equals the cache in
\* memory: a snapshot was written after the last mutation of the run.
C21_CheckpointAtEnd ==
    an_pc = "done" => mnli_file = mnli_analysis_cache

\* C22: during the loop, when the completed count stands at a multiple of the
\* checkpoint interval the cache has been snapshotted at that point.
C22_PeriodicCheckpoint ==
    (an_pc = "loop" /\ completed > 0
        /\ completed % PbarUpdateInterval(Len(unified_cache_df)) = 0) =>
            mnli_file = mnli_analysis_cache

\* C28: when the process exits on an interrupt, a cache the run has mutated
\* has been snapshotted to its file.
C28_InterruptFlushesSnapshot ==
    (an_pc = "interrupted" /\ mnli_analysis_cache # cache_at_start) =>
        mnli_file = mnli_analysis_cache

\* the rows counted in `completed` after a step: every iteration of the loop
\* increments it (lines 228, 251), so they are the rows before an_idx'
BatchFailed(batches, i) ==
    \E b \in 1..Len(batches) :
        /\ batches[b].raised
        /\ \E j \in 1..Len(batches[b].rows) : batches[b].rows[j].idx = i

\* C34: whenever Analyze writes a snapshot, every row already counted in
\* `completed` whose batch did not fail has its key in the snapshotted cache.
C34_CheckpointHoldsCompleted ==
    [][mnli_file' # mnli_file =>
        /\ completed' = an_idx' - 1
        /\ \A i \in 1..completed' :
              ~BatchFailed(an_batches', i)
                  => unified_cache_df[i].key \in DOMAIN mnli_file']_vars

-----------------------------------------------------------------------------
(* Claims about OutputMergedResults *)

KeysOf(records) == [i \in 1..Len(records) |-> records[i].key]
\* the keys of the rows written with the default probabilities, in row order
DefaultedKeys == KeysOf(SelectSeq(an_output, LAMBDA rec : rec.probs = ZeroScore))
\* the keys named by the "not found in cache" log entries, in log order
NotFoundLogged == KeysOf(SelectSeq(an_log, LAMBDA e : e.what = "key not found"))

\* C32: OutputMergedResults emits exactly one record per row of the unified
\* cache, in row order; a row gets the zero probabilities exactly when its key
\* is absent from the MNLI cache, otherwise it gets the cached record; and the
\* "not found" log entries name exactly the keys of the defaulted rows, one
\* entry per defaulted row.
C32_DefaultsNeverSilent ==
    an_pc = "done" =>
        /\ Len(an_output) = Len(unified_cache_df)
        /\ \A i \in 1..Len(unified_cache_df) :
              LET key == unified_cache_df[i].key IN
              /\ an_output[i].key = key
              /\ key \in DOMAIN mnli_analysis_cache
                    => an_output[i].probs = mnli_analysis_cache[key]
              /\ key \notin DOMAIN mnli_analysis_cache
                    => an_output[i].probs = ZeroScore
              /\ an_output[i].probs = ZeroScore <=> key \notin DOMAIN mnli_analysis_cache
        /\ NotFoundLogged = DefaultedKeys
\* an output with a defaulted row and a row carrying its cached record
C32_Witness ==
    /\ an_pc = "done"
    /\ Len(an_output) = 3
    /\ \E i, j \in 1..3 :
          /\ an_output[i].probs = ZeroScore
          /\ an_output[j].probs = Score(unified_cache_df[j].apsr_title_abstract,
                                        unified_cache_df[j].citing_abstract)
    /\ Len(NotFoundLogged) >= 1

-----------------------------------------------------------------------------
(* Claims about the citation fetch phase *)

\* the rows for which this process has issued a remote call
CtCalled == {i \in 1..Len(ct_tasks) : ct_tasks[i] # "queued"}

\* C2: when the citation phase runs with a cache loaded from a snapshot, no
\* remote call is issued for a title already in the loaded cache, and when the
\* phase has returned that title's record is what was loaded, also when the
\* input has titles that are not in the cache.
C2_IdempotentSkipFetch ==
    (ct_pc # "idle" /\ loaded_cc_apsr_citations_cache) =>
        \A t \in DOMAIN ct_loaded :
            /\ \A i \in CtCalled : camb_core_df[i].title # t
            /\ ct_pc = "done" =>
                  /\ t \in DOMAIN cc_apsr_citations_cache
                  /\ cc_apsr_citations_cache[t] = ct_loaded[t]

\* C4: after an interrupt with N of M titles written and a restart on the same
\* input with cache loading, the restarted phase issues remote calls for
\* exactly the rows whose result had not been written before the interrupt.
C4_ResumeCitations ==
    (ct_pc = "done" /\ ct_prev.valid /\ ct_prev.interrupted
                   /\ camb_core_df = ct_prev.df) =>
        CtCalled = (1..Len(camb_core_df)) \ ct_prev.written


\* the tasks of the citation phase that are executing
CtExecuting == {i \in 1..Len(ct_tasks) : ct_tasks[i] = "running"}

\* C23: at every moment at most 5 tasks of a fetch phase are executing,
\* however many are pending.
C23_BoundedConcurrency == Cardinality(CtExecuting) <= 5

\* C23 witness: five tasks are executing while a sixth waits in the queue
C23_Witness ==
    /\ Cardinality(CtExecuting) = 5
    /\ \E i \in 1..Len(ct_tasks) : ct_tasks[i] = "queued"

\* the remote call of a citation row ends in terminal failure: no response
\* after all attempts, or a client-error status
CtTerminalFailure(citation_row) ==
    LET res == CitationsRemote(citation_row.all_citing_papers_link)
    IN res.kind = "none" \/ res.status \in client_errors
\* a cache entry that holds nothing but padding, as the entry of a resolved
\* paper without citations does
Blank(citations) == \A j \in 1..Len(citations) : citations[j] = EmptyStr

\* C25: when the citation phase has completed, the cache entry of a title
\* whose only unit ended in terminal failure records an error, so it differs
\* from the entry of a resolved title without citations.
C25_TerminalFailuresRecorded ==
    (ct_pc = "done" /\ ct_tasks # <<>>) =>
        \A i \in 1..Len(camb_core_df) :
            (/\ CtTerminalFailure(camb_core_df[i])
             /\ \A j \in 1..Len(camb_core_df) :
                   camb_core_df[j].title = camb_core_df[i].title => j = i) =>
                ~Blank(cc_apsr_citations_cache[Strip(camb_core_df[i].title)])

\* C27: once KeyboardInterrupt has reached the coordinator, no task that had
\* not started executing is started.
C27_InterruptStopsDispatch ==
    [][ct_pc = "drain" =>
         \A i \in 1..Len(ct_tasks) :
             ct_tasks[i] = "queued" => ct_tasks'[i] = "queued"]_vars

\* C29: within one run no key is removed from the citations cache: its key
\* set only grows.
C29_CacheMonotonic ==
    [][run' = run =>
         DOMAIN cc_apsr_citations_cache \subseteq DOMAIN cc_apsr_citations_cache']_vars

\* C29 witness: a run that loaded a populated cache has added a key and
\* stored results
C29_Witness ==
    /\ ct_pc = "done"
    /\ loaded_cc_apsr_citations_cache
    /\ DOMAIN ct_loaded # {}
    /\ DOMAIN ct_loaded # DOMAIN cc_apsr_citations_cache
    /\ \E i \in 1..Len(ct_tasks) : ct_tasks[i] = "consumed"

\* C33: when PostProcessCambridgeCoreCitations has consumed every result and
\* writes its output, the cache keeps its titles, every list has the length of
\* the longest list before the step, every list keeps its elements as a prefix
\* and is continued with empty strings only, and the snapshot written is this
\* padded cache.
C33_PaddedToEqualLength ==
    [][(ct_pc = "collect" /\ ct_pc' = "done") =>
        LET old == cc_apsr_citations_cache
            new == cc_apsr_citations_cache'
        IN /\ DOMAIN new = DOMAIN old
           /\ \E longest \in DOMAIN old :
                 \A t \in DOMAIN old :
                    /\ Len(old[t]) <= Len(old[longest])
                    /\ Len(new[t]) = Len(old[longest])
                    /\ SubSeq(new[t], 1, Len(old[t])) = old[t]
                    /\ \A i \in (Len(old[t]) + 1)..Len(new[t]) : new[t][i] = EmptyStr
           /\ citations_file' = Snapshot(new)]_vars
\* an output in which a list without citations was filled with placeholders
\* up to the length of a list of DOIs
C33_Witness ==
    /\ ct_pc = "done"
    /\ cc_apsr_citations_processed
    /\ citations_file = Snapshot(cc_apsr_citations_cache)
    /\ \E t, u \in DOMAIN cc_apsr_citations_cache :
          /\ Len(cc_apsr_citations_cache[u]) >= 2
          /\ \A i \in 1..Len(cc_apsr_citations_cache[u]) :
                cc_apsr_citations_cache[u][i] # EmptyStr
          /\ Len(cc_apsr_citations_cache[t]) = Len(cc_apsr_citations_cache[u])
          /\ \A i \in 1..Len(cc_apsr_citations_cache[t]) :
                cc_apsr_citations_cache[t][i] = EmptyStr

\* a step of a pool worker: a task starts or returns
CtWorkerStep ==
    /\ Len(ct_tasks') = Len(ct_tasks)
    /\ \E i \in 1..Len(ct_tasks) :
          \/ ct_tasks[i] = "queued" /\ ct_tasks'[i] = "running"
          \/ ct_tasks[i] = "running" /\ ct_tasks'[i] = "finished"
\* an iteration of the coordinator's as_completed loop
CtCollectStep ==
    /\ ct_pc = "collect" /\ ct_pc' = "collect"
    /\ Len(ct_tasks') = Len(ct_tasks)
    /\ \E i \in 1..Len(ct_tasks) : ct_tasks[i] = "finished" /\ ct_tasks'[i] = "consumed"
\* a step of the phase that changes the citations cache
CtCacheMutated ==
    run' = run /\ cc_apsr_citations_cache' # cc_apsr_citations_cache

\* C38: every mutation of the citations cache is made by the coordinator: the
\* placeholder entries before any task is submitted, a result inside the
\* as_completed loop, or the padding after every result was consumed; a step
\* of a worker never changes the cache.
C38_SingleWriter ==
    [][CtCacheMutated =>
        /\ ~CtWorkerStep
        /\ \/ ct_pc = "start" /\ ct_tasks = <<>>
           \/ CtCollectStep
           \/ /\ ct_pc = "collect" /\ ct_pc' = "done"
              /\ \A i \in 1..Len(ct_tasks) : ct_tasks[i] = "consumed"]_vars
\* the coordinator has stored a list of DOIs while a worker is still running
C38_Witness ==
    /\ ct_pc = "collect"
    /\ run = 1
    /\ \E t \in DOMAIN cc_apsr_citations_cache : cc_apsr_citations_cache[t] # <<>>
    /\ \E i, j \in 1..Len(ct_tasks) :
          ct_tasks[i] = "consumed" /\ ct_tasks[j] = "running"
\* C38 as stated: every mutation of the citations cache is made inside the
\* as_completed loop.
C38_MutationsInsideLoop ==
    [][CtCacheMutated => CtCollectStep]_vars

-----------------------------------------------------------------------------
(* Claims about PostProcessCrossRef *)

\* a record with an empty error and all four required fields
CompleteRecord(record) ==
    /\ record.error = <<>>
    /\ record.citing_title # ""
    /\ record.citing_abstract # ""
    /\ record.apsr_title # <<>>
    /\ record.citing_doi # <<>>
\* the cache key a dispatched pair is stored under
KeyOf(pair) == QueryCrossRefByDOI(pair, cr_remote).ret.citing_doi
\* the pairs for which a worker has issued the remote call
CrCalled == {i \in 1..Len(cr_tasks) : cr_tasks[i] # "queued"}

\* C3: a DOI key whose loaded record is complete and free of errors is not
\* placed in to_process, no remote call is issued for it, and its record is
\* left as it was loaded.
C3_IdempotentSkipCrossRef ==
    cr_pc \in {"collect", "drain", "done", "exited"} =>
        \A k \in DOMAIN cr_loaded :
            CompleteRecord(cr_loaded[k]) =>
                /\ \A i \in 1..Len(to_process) : KeyOf(to_process[i]) # k
                /\ \A i \in CrCalled : KeyOf(to_process[i]) # k
                /\ k \in DOMAIN crossref_cache
                /\ crossref_cache[k] = cr_loaded[k]

\* the subsequence of the units of pairs whose index is not in done
RECURSIVE Remaining(_, _, _)
Remaining(pairs, done, i) ==
    IF i > Len(pairs) THEN <<>>
    ELSE (IF i \in done THEN <<>> ELSE <<pairs[i]>>) \o Remaining(pairs, done, i + 1)

\* C5: a process restarted after an interrupt dispatches exactly the units of
\* the interrupted process whose result had not been written to the cache.
C5_ResumeCrossRef ==
    (cr_pc \in {"collect", "drain", "done", "exited"}
        /\ cr_prev.valid /\ cr_prev.interrupted) =>
            to_process = Remaining(cr_prev.to_process, cr_prev.written, 1)

\* the cache after the results of pairs i..Len(pairs) are stored in that order
RECURSIVE MergeInOrder(_, _, _)
MergeInOrder(cache, pairs, i) ==
    IF i > Len(pairs) THEN cache
    ELSE LET r == QueryCrossRefByDOI(pairs[i], cr_remote)
         IN MergeInOrder(IF r.raised THEN cache ELSE StoreResult(cache, r.ret),
                         pairs, i + 1)

\* C6: when the phase completes, the cache is the one obtained by storing the
\* results in dispatch order, whatever the order in which the tasks completed.
C6_MergeDeterminism ==
    (cr_pc = "done" /\ to_process # <<>>) =>
        crossref_cache = MergeInOrder(cr_loaded, to_process, 1)

\* C7: no two pairs dispatched by one process are stored under the same key.
C7_KeyOwnership ==
    \A i, j \in 1..Len(to_process) :
        i # j => KeyOf(to_process[i]) # KeyOf(to_process[j])

\* C35: for every dispatched pair (title, d), the key under which the result
\* is stored in the crossref cache is d, the key the skip filter looks up.
C35_StoredKeyIsLookupKey ==
    \A i \in 1..Len(to_process) : KeyOf(to_process[i]) = to_process[i][2]

\* C36: in a later run, a DOI key whose loaded record has a non-empty error
\* is not placed in to_process, no dispatched pair is fetched and stored under
\* it, and its record stays as it was loaded.
C36_FailedNeverRetried ==
    (cr_prev.valid /\ cr_pc \in {"collect", "drain", "done", "exited"}) =>
        \A k \in DOMAIN cr_loaded :
            cr_loaded[k].error # <<>> =>
                /\ \A i \in 1..Len(to_process) :
                      to_process[i][2] # k /\ KeyOf(to_process[i]) # k
                /\ k \in DOMAIN crossref_cache
                /\ crossref_cache[k] = cr_loaded[k]

\* a record built from a response that was neither absent nor a client error
FromAnswer(record) ==
    \A j \in 1..Len(record.error) :
        record.error[j] \notin {"No server response after maximum attempts",
                                "Server Response"}

\* C37: the error of a record built by QueryCrossRefByDOI from an answered
\* request is empty exactly when a title, an abstract and a publication year
\* were obtained, and a record whose citing_pub_year was resolved carries no
\* "No publication date found" error.
C37_ErrorReflectsMissingData ==
    \A k \in DOMAIN crossref_cache :
        LET record == crossref_cache[k] IN
        FromAnswer(record) =>
            /\ record.error = <<>>
                  <=> /\ record.citing_title # ""
                      /\ record.citing_abstract # ""
                      /\ record.citing_pub_year # 0
            /\ record.citing_pub_year # 0 =>
                  \A j \in 1..Len(record.error) :
                      record.error[j] # "No publication date found"

\* the dispatched pairs whose task raised an exception
CrRaised == {i \in 1..Len(to_process) : QueryCrossRefByDOI(to_process[i], cr_remote).raised}

\* C26: an exception raised by a task is caught where its result is collected
\* and logged; the phase does not abort, and when it returns every other
\* task has been collected and its result stored.
C26_FailureIsolation ==
    /\ cr_pc \in {"idle", "start", "collect", "drain", "done", "exited"}
    /\ \A i \in CrRaised :
          cr_tasks[i] = "consumed" =>
              [what |-> "failed to process abstract row", doi |-> to_process[i][2]]
                  \in cr_log
    /\ (cr_pc = "done" /\ to_process # <<>>) =>
          /\ crossref_processed
          /\ \A j \in 1..Len(to_process) :
                /\ cr_tasks[j] = "consumed"
                /\ j \notin CrRaised => KeyOf(to_process[j]) \in DOMAIN crossref_cache

\* C26 witness: the phase returned after one task raised and another stored
\* its result
C26_Witness ==
    /\ cr_pc = "done"
    /\ CrRaised # {}
    /\ \E j \in 1..Len(to_process) :
          /\ j \notin CrRaised
          /\ CompleteRecord(crossref_cache[KeyOf(to_process[j])])

\* C30: the phase, once entered, eventually returns (or exits after an
\* interrupt), and when it returns every dispatched task has completed: its
\* result is in the cache, or its failure is logged.
C30_Termination ==
    /\ (cr_pc = "start") ~> (cr_pc \in {"done", "exited"})
    /\ [](cr_pc = "done" =>
            \A i \in 1..Len(to_process) :
                /\ cr_tasks[i] = "consumed"
                /\ \/ KeyOf(to_process[i]) \in DOMAIN crossref_cache
                   \/ \E e \in cr_log : e.doi = to_process[i][2])

\* C30 witness: the phase returned with one unit completed and one unit in
\* terminal failure, recorded with its error
C30_Witness ==
    /\ cr_pc = "done"
    /\ Len(to_process) = 2
    /\ \A i \in 1..2 : cr_tasks[i] = "consumed" /\ i \notin CrRaised
    /\ \E i, j \in 1..2 :
          /\ crossref_cache[KeyOf(to_process[i])].error # <<>>
          /\ CompleteRecord(crossref_cache[KeyOf(to_process[j])])

-----------------------------------------------------------------------------
(* Claims about the cache lock *)

\* a remote call or a backoff / rate-limit sleep is in progress on thread t
Suspended(t) == t \in LkWorkers /\ lk_worker[t] \in {"get", "sleep"}

\* C24: the thread holding the cache lock is not in a remote call or a sleep
\* of WebFetch; the lock is held only around the cache write and the snapshot.
C24_LockScope ==
    /\ ~Suspended(lk_holder)
    /\ lk_holder # "none" =>
          /\ lk_holder = Coordinator
          /\ lk_coord \in {"write", "final"}

\* C24 witness: the coordinator holds the lock for a cache write while a
\* worker sleeps in WebFetch
C24_Witness ==
    /\ lk_holder = Coordinator
    /\ lk_coord = "write"
    /\ \E w \in LkWorkers : lk_worker[w] = "sleep" /\ lk_attempt[w] > 0

-----------------------------------------------------------------------------
(* Claims about the records ProcessBatch stores *)

ScFields == {"contradiction_prob", "neutral_prob", "entailment_prob"}
ScColumn(f) == IF f = "contradiction_prob" THEN 1 ELSE IF f = "neutral_prob" THEN 2 ELSE 3
ScSum(rec) == rec.contradiction_prob + rec.neutral_prob + rec.entailment_prob

\* C31: every record ProcessBatch writes has exactly the three probabilities
\* contradiction, neutral and entailment; each is a multiple of 10^-4 in [0,1]
\* nearest to the classifier's value (at most half a unit of the fourth place
\* away), and the three sum to 1 within one unit of the fourth place.
C31_ScoreRecordShape ==
    sc_pc = "stored" =>
        \A i \in 1..Len(sc_rows) :
            LET rec == sc_cache[sc_rows[i]] IN
            /\ DOMAIN rec = ScFields
            /\ \A f \in ScFields :
                  /\ rec[f] \in 0..Scale
                  /\ 10 * rec[f] - sc_probs[i][ScColumn(f)] \in -5..5
            /\ ScSum(rec) \in (Scale - 1)..(Scale + 1)
\* two records stored by one call, one whose rounded values sum to 0.9999 and
\* one whose rounded values sum to 1.0001
C31_Witness ==
    /\ sc_pc = "stored"
    /\ Len(sc_rows) = 2
    /\ ScSum(sc_cache[sc_rows[1]]) = Scale - 1
    /\ ScSum(sc_cache[sc_rows[2]]) = Scale + 1

-----------------------------------------------------------------------------
(* Claims about PickleOut *)

\* C8: if the process crashes during PickleOut(data, path), the file at path is
\* either the complete previous snapshot or the complete new snapshot, never an
\* empty or partial file.
C8_SnapshotOverwriteSafe ==
    pk_pc = "crashed" => (pk_file = pk_prev \/ pk_file = FileOf(pk_data))

-----------------------------------------------------------------------------
(* Claims about WebFetch *)

\* every session.get so far raised a network exception
AllTransient == \A i \in 1..Len(wf_hist) : wf_hist[i] = Exc

C10_ServerErrorsRetried ==
    wf_pc = "returned" => ~(wf_ret.kind = "resp" /\ wf_ret.status >= 500)

\* the rate-limit response without a wait hint
RateLimited == Response(429, Absent)
\* the remote answered 429 without a hint three times and then 200
Scenario3 ==
    /\ wf_pc = "returned"
    /\ wf_hist = <<RateLimited, RateLimited, RateLimited, Response(200, Absent)>>

\* C11 (as amended): after 429 without a hint on attempts 1..3 and success on
\* attempt 4, WebFetch returns the successful response and has slept three
\* times the unchanged, capped wait min(base_timeout, 180): a rate-limit
\* retry does not take a backoff step.
C11_RateLimitThenSuccess ==
    Scenario3 =>
        /\ wf_ret = Response(200, Absent)
        /\ wf_sleeps = [i \in 1..3 |-> Min(wf_base, CapWait)]
        /\ SumSeq(wf_sleeps) = 3 * Min(wf_base, CapWait)

\* C11 witness: the scenario has happened, with the default base_timeout
C11_Witness == Scenario3 /\ wf_base = 15 /\ Len(wf_sleeps) = 3

\* C11 as stated: in that scenario the total slept is the sum of the first
\* three capped backoff steps min(w * 2^i, 180), i = 0..2.
C11_RateLimitBackoffSteps ==
    Scenario3 =>
        /\ wf_ret = Response(200, Absent)
        /\ SumSeq(wf_sleeps) =
              SumSeq([i \in 1..3 |-> Min(wf_base * Pow2(i - 1), CapWait)])

\* a step in which session.get returned 429
Got429 ==
    /\ wf_pc = "loop"
    /\ Len(wf_hist') = Len(wf_hist) + 1
    /\ wf_hist'[Len(wf_hist')].status = 429
\* the hint of the 429 response received in this step: the integer Retry-After
\* header if there is one, otherwise the current backoff wait
Hint429 ==
    LET h == wf_hist'[Len(wf_hist')].retry
    IN IF h.hdr = "int" THEN h.val ELSE wf_wait

\* C12: on a 429 response WebFetch sleeps min(hint, 180) and leaves the
\* backoff wait as it was.
C12_RateLimitWait ==
    [][Got429 => /\ wf_sleeps' = Append(wf_sleeps, Min(Hint429, CapWait))
                 /\ wf_wait' = wf_wait]_vars

\* C13: a client-error response (400, 401, 403, 404) ends WebFetch at once: it
\* is the last remote outcome, it is what WebFetch returns, no sleep follows
\* it, and QueryCrossRefByDOI turns it into an error record without a second
\* remote call.
C13_TerminalFailureImmediate ==
    /\ \A i \in 1..Len(wf_hist) :
          (wf_hist[i].kind = "resp" /\ wf_hist[i].status \in client_errors) =>
              /\ i = Len(wf_hist)
              /\ wf_pc = "returned"
              /\ wf_ret = wf_hist[i]
              /\ Len(wf_sleeps) = i - 1
    /\ \A t \in {TitleA, TitleB} : \A doi \in {<<"b">>, <<"c">>} :
          LET r == QueryCrossRefByDOI(<<t, doi>>, "client_error")
          IN /\ ~r.raised
             /\ r.ret.error = <<"Server Response">>
             /\ r.ret.citing_title = ""

\* C13 witness: a client error arrived after an earlier retry
C13_Witness ==
    /\ wf_pc = "returned"
    /\ Len(wf_hist) >= 2
    /\ wf_hist[Len(wf_hist)].status \in client_errors
    /\ wf_ret.status = 403

\* every remote outcome so far was a retryable failure (exception or 429)
AllRetryable ==
    \A i \in 1..Len(wf_hist) :
        wf_hist[i] = Exc \/ (wf_hist[i].kind = "resp" /\ wf_hist[i].status = 429)

\* C14: WebFetch calls the remote get at most max_attempts times, each
\* outcome counting as one attempt, and after max_attempts retryable failures
\* it has terminated and returned None.
C14_BoundedAttempts ==
    wf_pc # "idle" =>
        /\ Len(wf_hist) <= MaxAttempts
        /\ wf_attempt = Len(wf_hist)
        /\ (Len(wf_hist) = MaxAttempts /\ AllRetryable) =>
               (wf_pc = "returned" /\ wf_ret = NoResponse)

\* C15: WebFetch never lets an exception escape to its caller.
C15_NeverRaises == wf_pc # "raised"

====
